---------------------------- MODULE Spec2Model ----------------------------
(***************************************************************************)
(* HttpServerTransport (src/src/index.ts, lines 559-787): the HTTP         *)
(* transport that correlates POST /mcp requests with the replies the       *)
(* shared handler (the SDK, through onmessage / send) produces.            *)
(*                                                                         *)
(* One promise is created per admitted request; the model numbers these    *)
(* promises ("calls") 1..MaxCalls in the order of their creation.  POSTs   *)
(* that are answered without a promise (invalid envelope, notification)    *)
(* take no call number.  JavaScript runs each callback to completion and   *)
(* the continuation of a settled awaited promise runs before any other     *)
(* event, so every handler below is one atomic action.                     *)
(*                                                                         *)
(* The module also holds the two dispatchers of the same file: the         *)
(* ListTools / CallTool handlers that initializeServer registers with the  *)
(* SDK (lines 47-86) and the POST /mcp route of startHttpServer (lines     *)
(* 310-371).  A process is wired with one front end, `frontEnd`, drawn in  *)
(* Init; the dispatchers keep no state between two requests.               *)
(* initializeServer (lines 23-98) starts the process for the two front     *)
(* ends it knows, startHttpServer and StdioServerTransport; the class      *)
(* HttpServerTransport is modelled from its construction on.               *)
(***************************************************************************)
EXTENDS Integers, Sequences, FiniteSets

\* ------------------------------------------------------------------ bounds
MaxCalls == 2

\* --------------------------------------------------------- JSON id values
\* undefined and null, beside the ids a request can carry.  The transport
\* uses an id as a Map key (compared for equality) and in `id || null`
\* (tested for falsiness) and in no other way: 0 is the falsy id, 1 stands
\* for the truthy ones.
Undefined == -2
Null == -1
RequestIds == {0, 1}
IdValues == RequestIds \cup {Undefined, Null}

\* JSON-RPC error codes used by the transport
InvalidRequest == -32600
InternalError == -32603

Calls == 1..MaxCalls
NoString == "undefined"
JsonrpcValues == {"2.0", "1.0", NoString}
MethodValues == {"tools/list", NoString}
Messages == [jsonrpc : JsonrpcValues, method : MethodValues, id : IdValues]

\* ------------------------------------------------------ the tool registry
\* createToolsFromSpec returns an array of {name, description, inputSchema,
\* execute}; the dispatchers read it and never change it.
Tool(n) == [name |-> n, description |-> <<"description", n>>,
            inputSchema |-> <<"inputSchema", n>>, execute |-> <<"execute", n>>]
Registries == {<<>>, <<Tool("list_users")>>,
               <<Tool("list_users"), Tool("get_user")>>}
FrontEnds == {"HttpServerTransport", "startHttpServer", "StdioServerTransport"}

\* ------------------------------------------------- dispatcher requests
\* params of a tools/call: the tool under `name` or `toolName`, its
\* arguments under `arguments` or `args`; NoString marks an absent field.
NoParams == [name |-> NoString, toolName |-> NoString,
             arguments |-> NoString, args |-> NoString]
NameForms == {[name |-> n, toolName |-> NoString] :
                 n \in {NoString, "list_users", "get_user", "nonexistent_tool"}}
             \cup {[name |-> NoString, toolName |-> "get_user"]}
ArgumentForms == {[arguments |-> a, args |-> NoString] :
                     a \in {NoString, "{}", "{userName}"}}
                 \cup {[arguments |-> NoString, args |-> "{domainName}"]}
ParamsValues == {[name |-> n.name, toolName |-> n.toolName,
                  arguments |-> a.arguments, args |-> a.args] :
                     n \in NameForms, a \in ArgumentForms}
ListMethods == {"tools/list", "list_tools"}
CallMethods == {"tools/call", "call_tool"}
SupportedMethods == <<"tools/list", "tools/call", "list_tools", "call_tool">>
\* bodies a client can POST to startHttpServer's /mcp; params are read for
\* a call method only
McpBodies == [jsonrpc : JsonrpcValues, id : {Undefined, 1},
              method : CallMethods, params : ParamsValues]
             \cup [jsonrpc : JsonrpcValues, id : {Undefined, 1},
                   method : ListMethods \cup {"ping", NoString},
                   params : {NoParams}]
\* requests the SDK hands to the two registered handlers: the SDK has
\* parsed them with the handler's schema, so the method is the schema's
\* and params.name of a tools/call is a string
ListToolsRequests == [jsonrpc : {"2.0"}, id : {1}, method : {"tools/list"},
                      params : {NoParams}]
CallToolRequests == {r \in [jsonrpc : {"2.0"}, id : {1}, method : {"tools/call"},
                            params : ParamsValues] :
                        r.params.name # NoString /\ r.params.toolName = NoString
                        /\ r.params.args = NoString}
NoRequest == [jsonrpc |-> NoString, id |-> Undefined, method |-> NoString,
              params |-> NoParams]
\* tool.execute either resolves with the API's answer or throws
Outcomes == {"returns", "throws"}

VARIABLES
    listening,          \* httpServer is listening (start() was called)
    onmessage,          \* TRUE iff the SDK has attached onmessage
    pendingResponses,   \* Map: request id -> call whose resolve is stored
    timers,             \* armed 30 s timers, in firing (= creation) order
    ncalls,             \* number of responsePromises created so far
    reqId,              \* call -> id of the request that created it
    promise,            \* call -> "none" | "pending" | "fulfilled" | "rejected"
    awaiting,           \* call -> the route handler is suspended at `await`
    nres,               \* call -> number of HTTP responses written for it
    inbox,              \* requests handed to onmessage and not yet answered
    handed,             \* onmessage invocations made by the latest POST /mcp
    warned,             \* console.warn was called by send
    crashed,            \* an unhandled rejection has ended the process
    lastRes,            \* the HTTP response written most recently
    frontEnd,           \* the front end this process serves requests with
    tools,              \* the tool registry (array built at startup)
    request,            \* the request dispatched most recently
    reply,              \* what the dispatcher answered to `request`
    executed,           \* tool.execute calls made for `request`, in order
    apiKey,             \* process.env.PURELYMAIL_API_KEY
    startup             \* how far initializeServer got, and what it did

vars == <<listening, onmessage, pendingResponses, timers, ncalls, reqId,
          promise, awaiting, nres, inbox, handed, warned, crashed, lastRes,
          frontEnd, tools, request, reply, executed, apiKey, startup>>

\* the fields of HttpServerTransport and what its callbacks write
transport == <<listening, onmessage, pendingResponses, timers, ncalls, reqId,
               promise, awaiting, nres, inbox, handed, warned, crashed, lastRes>>

\* what initializeServer and the dispatchers read and write
dispatch == <<frontEnd, tools, request, reply, executed, apiKey, startup>>

\* ------------------------------------------------------- JavaScript values
\* `!v` for the values an id can take
Falsy(v) == v \in {Undefined, Null, 0}

\* `v || null`
OrNull(v) == IF Falsy(v) THEN Null ELSE v

\* `!s` for a string field that may be absent
Missing(s) == s = NoString

\* Map.prototype.set / delete / get / has
MapSet(m, k, v) == [i \in (DOMAIN m) \cup {k} |-> IF i = k THEN v ELSE m[i]]
MapClear(m, k) == [i \in {} |-> m[i]]
MapDelete(m, k) == [i \in (DOMAIN m) \ {k} |-> m[i]]
MapHas(m, k) == k \in DOMAIN m

\* -------------------------------------------------------- response bodies
EmptyBody == [kind |-> "empty", id |-> Undefined, code |-> 0,
              message |-> "", origin |-> 0]
ErrorBody(id, code, text) == [kind |-> "error", id |-> id, code |-> code,
                              message |-> text, origin |-> 0]
\* the JSONRPCMessage the handler passes to send: origin is the call whose
\* request the handler is answering (0: a message of the handler's own)
Outbound(id, origin) == [kind |-> "message", id |-> id, code |-> 0,
                         message |-> "", origin |-> origin]

\* what res.status(..).json(..) / send() wrote, and for which call (0: a POST
\* answered without a promise)
NoResponse == [call |-> 0, status |-> 0, body |-> EmptyBody]
Response(c, status, body) == [call |-> c, status |-> status, body |-> body]

Bump(n) == IF n < 2 THEN n + 1 ELSE n

\* -------------------------------------------------- dispatcher replies
\* res.status(n).json(body); res.json(body) is status 200
Json(status, body) == [status |-> status, body |-> body]
\* the SDK puts what a request handler returns in the `result` of its
\* response, and the message of what it throws in the `error`; no HTTP
\* status is involved
Returned(result) == [status |-> 0, body |-> [result |-> result]]
Thrown(message) == [status |-> 0, body |-> [error |-> [message |-> message]]]
NoReply == [status |-> 0, body |-> [none |-> TRUE]]
\* `a || b` on strings
OrElse(a, b) == IF a = NoString \/ a = "" THEN b ELSE a
\* JSON.stringify(result, null, 2)
Stringify(v) == <<"JSON text of", v>>
\* what the PurelyMail API answers to a tool called with args, and the
\* message of the error a failing call throws
RawResult(toolName, args) == [answerOf |-> toolName, given |-> args]
FailureText == <<"PurelyMail API error">>

\* ---------------------------------------------------------------- startup
\* the environment variable may be unset, empty or set
ApiKeyValues == {NoString, "", "pm-live-key"}

\* `!apiKey`
NoApiKey(key) == key = NoString \/ key = ""

\* the handlers initializeServer registers with the SDK server
Handlers == {"ListToolsRequestSchema", "CallToolRequestSchema"}

\* nothing done yet
Starting == [phase |-> "starting", exitCode |-> Null, diagnostic |-> NoString,
             registry |-> FALSE, handlers |-> {}, transport |-> "none"]

\* console.error(...) and process.exit(1), with what had been done before
Exited(registry, handlers) ==
    [phase |-> "exited", exitCode |-> 1,
     diagnostic |-> "PurelyMail API key required. Set PURELYMAIL_API_KEY environment variable.",
     registry |-> registry, handlers |-> handlers, transport |-> "none"]

\* registry built, both handlers registered, front end started
Serving(type) == [phase |-> "serving", exitCode |-> Null,
                  diagnostic |-> "Registered tools from swagger spec",
                  registry |-> TRUE, handlers |-> Handlers, transport |-> type]

\* ------------------------------------------------------------------- Init
Init ==
    /\ listening = FALSE
    /\ onmessage = FALSE
    /\ pendingResponses = [i \in {} |-> 0]
    /\ timers = <<>>
    /\ ncalls = 0
    /\ reqId = [c \in Calls |-> Undefined]
    /\ promise = [c \in Calls |-> "none"]
    /\ awaiting = [c \in Calls |-> FALSE]
    /\ nres = [c \in Calls |-> 0]
    /\ inbox = {}
    /\ handed = 0
    /\ warned = FALSE
    /\ crashed = FALSE
    /\ lastRes = NoResponse
    /\ frontEnd \in FrontEnds
    /\ tools = <<>>
    /\ IF frontEnd = "HttpServerTransport"
       THEN apiKey = "pm-live-key" /\ startup = Serving(frontEnd)
       ELSE apiKey \in ApiKeyValues /\ startup = Starting
    /\ request = NoRequest
    /\ reply = NoReply
    /\ executed = <<>>

\* -------------------------------------------------------- initializeServer
initializeServerLateCheck ==
    /\ startup.phase = "starting"
    /\ tools' \in Registries
    /\ startup' = (IF NoApiKey(apiKey) THEN Exited(TRUE, Handlers)
                   ELSE Serving(frontEnd))
    /\ UNCHANGED <<frontEnd, request, reply, executed, apiKey>>
    /\ UNCHANGED transport

\* lines 23-98: the key is tested first; without it nothing else is done
initializeServer ==
    /\ startup.phase = "starting"
    /\ IF NoApiKey(apiKey)
       THEN /\ startup' = Exited(FALSE, {})
            /\ UNCHANGED tools
       ELSE /\ tools' \in Registries
            /\ startup' = Serving(frontEnd)
    /\ UNCHANGED <<frontEnd, request, reply, executed, apiKey>>
    /\ UNCHANGED transport

\* -------------------------------------------------------- start / connect
Start ==
    /\ frontEnd = "HttpServerTransport"
    /\ ~crashed
    /\ ~listening
    /\ listening' = TRUE
    /\ UNCHANGED <<onmessage, pendingResponses, timers, ncalls, reqId, promise,
                   awaiting, nres, inbox, handed, warned, crashed, lastRes>>
    /\ UNCHANGED dispatch

Attach ==
    /\ frontEnd = "HttpServerTransport"
    /\ ~crashed
    /\ ~onmessage
    /\ onmessage' = TRUE
    /\ UNCHANGED <<listening, pendingResponses, timers, ncalls, reqId, promise,
                   awaiting, nres, inbox, handed, warned, crashed, lastRes>>
    /\ UNCHANGED dispatch

\* ------------------------------------------------- promise and its awaiter
\* resolver(message): settles the promise of call c; when the route handler
\* is suspended at `await responsePromise` it resumes and writes res.json
Fulfil(c, m) ==
    IF promise[c] = "pending"
    THEN /\ promise' = [promise EXCEPT ![c] = "fulfilled"]
         /\ IF awaiting[c]
            THEN /\ awaiting' = [awaiting EXCEPT ![c] = FALSE]
                 /\ nres' = [nres EXCEPT ![c] = Bump(@)]
                 /\ lastRes' = Response(c, 200, m)
            ELSE UNCHANGED <<awaiting, nres, lastRes>>
         /\ UNCHANGED crashed
    ELSE UNCHANGED <<promise, awaiting, nres, lastRes, crashed>>

\* reject(new Error('Request timeout')): the awaiting route handler resumes
\* in its catch block; with nobody awaiting, the rejection is unhandled and
\* Node (no 'unhandledRejection' hook is installed) ends the process
Reject(c) ==
    IF promise[c] = "pending"
    THEN /\ promise' = [promise EXCEPT ![c] = "rejected"]
         /\ IF awaiting[c]
            THEN /\ awaiting' = [awaiting EXCEPT ![c] = FALSE]
                 /\ nres' = [nres EXCEPT ![c] = Bump(@)]
                 /\ lastRes' = Response(c, 500,
                                 ErrorBody(OrNull(reqId[c]), InternalError,
                                           "Request timeout"))
                 /\ UNCHANGED crashed
            ELSE /\ crashed' = TRUE
                 /\ UNCHANGED <<awaiting, nres, lastRes>>
    ELSE UNCHANGED <<promise, awaiting, nres, lastRes, crashed>>

\* ------------------------------------------------------------- POST /mcp
\* variant of the notification test that forgets `=== null`
IsNotificationUndefinedOnly(requestId) == requestId = Undefined

\* `requestId === undefined || requestId === null`
IsNotification(requestId) == requestId = Undefined \/ requestId = Null

\* `!message.jsonrpc || message.jsonrpc !== '2.0'`
BadJsonrpc(message) == Missing(message.jsonrpc) \/ message.jsonrpc # "2.0"

\* res.status(400).json({... id: message.id || null, error ...})
RejectEnvelope(message, text) ==
    /\ lastRes' = Response(0, 400,
                           ErrorBody(OrNull(message.id), InvalidRequest, text))
    /\ handed' = 0
    /\ UNCHANGED <<pendingResponses, timers, ncalls, reqId, promise, awaiting,
                   nres, inbox>>

\* variant of the notification branch that answers 204 without calling
\* onmessage
NotifyNotHanded(message) ==
    /\ handed' = 0
    /\ lastRes' = Response(0, 204, EmptyBody)
    /\ UNCHANGED <<pendingResponses, timers, ncalls, reqId, promise, awaiting,
                   nres, inbox>>

\* the notification branch: onmessage(message) when a handler is attached
\* (the handler answers requests only), then 204 with no body
Notify(message) ==
    /\ handed' = (IF onmessage THEN 1 ELSE 0)
    /\ lastRes' = Response(0, 204, EmptyBody)
    /\ UNCHANGED <<pendingResponses, timers, ncalls, reqId, promise, awaiting,
                   nres, inbox>>

\* the request branch: new Promise (store the resolver, arm the timer), then
\* hand over and await, or answer 500 when no handler is attached
Request(message) ==
    LET c == ncalls + 1
        requestId == message.id
    IN  /\ ncalls < MaxCalls
        /\ ncalls' = c
        /\ reqId' = [reqId EXCEPT ![c] = requestId]
        /\ promise' = [promise EXCEPT ![c] = "pending"]
        /\ pendingResponses' = MapSet(pendingResponses, requestId, c)
        /\ timers' = Append(timers, [call |-> c, id |-> requestId])
        /\ IF onmessage
           THEN /\ handed' = 1
                /\ inbox' = inbox \cup {[call |-> c, id |-> requestId]}
                /\ awaiting' = [awaiting EXCEPT ![c] = TRUE]
                /\ UNCHANGED <<nres, lastRes>>
           ELSE /\ handed' = 0
                /\ nres' = [nres EXCEPT ![c] = Bump(@)]
                /\ lastRes' = Response(c, 500,
                                ErrorBody(requestId, InternalError,
                                          "Internal error: message handler not initialized"))
                /\ UNCHANGED <<inbox, awaiting>>

\* A request whose handler calls send(reply) before onmessage returns
\* (lines 651-678).  `seen` is the map that send finds: the resolver it gets
\* is the new call's only if the entry was stored before the hand-off.  The
\* promise is then already fulfilled when the route reaches `await`, and the
\* response is written before any other callback runs.
AnsweredInHandOff(message, seen) ==
    LET c == ncalls + 1
        requestId == message.id
        resolver == IF MapHas(seen, requestId) THEN seen[requestId] ELSE 0
    IN  /\ ncalls < MaxCalls
        /\ onmessage
        /\ ncalls' = c
        /\ reqId' = [reqId EXCEPT ![c] = requestId]
        /\ timers' = Append(timers, [call |-> c, id |-> requestId])
        /\ handed' = 1
        /\ IF resolver = c
           THEN /\ pendingResponses' =
                      MapDelete(MapSet(pendingResponses, requestId, c), requestId)
                /\ promise' = [promise EXCEPT ![c] = "fulfilled"]
                /\ nres' = [nres EXCEPT ![c] = Bump(@)]
                /\ lastRes' = Response(c, 200, Outbound(requestId, c))
                /\ UNCHANGED <<inbox, awaiting>>
           ELSE /\ pendingResponses' = MapSet(pendingResponses, requestId, c)
                /\ promise' = [promise EXCEPT ![c] = "pending"]
                /\ awaiting' = [awaiting EXCEPT ![c] = TRUE]
                /\ UNCHANGED <<inbox, nres, lastRes>>

RequestAnsweredBeforeRegistered(message) ==
    AnsweredInHandOff(message, pendingResponses)

\* the executor has stored the resolver (line 653) when onmessage is called
\* (line 664)
RequestAnsweredInHandOff(message) ==
    AnsweredInHandOff(message,
                      MapSet(pendingResponses, message.id, ncalls + 1))

\* The route with the method check placed before the jsonrpc check.
PostMethodFirst(message) ==
    /\ listening /\ ~crashed
    /\ IF Missing(message.method)
       THEN RejectEnvelope(message, "Invalid Request: missing method field")
       ELSE IF BadJsonrpc(message)
       THEN RejectEnvelope(message, "Invalid Request: missing or invalid jsonrpc field")
       ELSE IF IsNotification(message.id) THEN Notify(message)
       ELSE Request(message) \/ RequestAnsweredInHandOff(message)
    /\ UNCHANGED <<listening, onmessage, warned, crashed>>


Post(message) ==
    /\ listening
    /\ ~crashed
    /\ IF BadJsonrpc(message)
       THEN RejectEnvelope(message,
                "Invalid Request: missing or invalid jsonrpc field")
       ELSE IF Missing(message.method)
       THEN RejectEnvelope(message, "Invalid Request: missing method field")
       ELSE IF IsNotification(message.id)
       THEN Notify(message)
       ELSE Request(message) \/ RequestAnsweredInHandOff(message)
    /\ UNCHANGED <<listening, onmessage, warned, crashed>>

\* ------------------------------------------------------------------- send
\* variant of the id test that forgets `!== null`
HasIdUndefinedOnly(m) == m.id # Undefined

\* `messageWithId.id !== undefined && messageWithId.id !== null`
HasId(m) == m.id # Undefined /\ m.id # Null

\* this.pendingResponses.get(messageWithId.id): the call whose resolver is
\* stored under the id, 0 for none
Resolver(m) ==
    IF HasId(m) /\ MapHas(pendingResponses, m.id)
    THEN pendingResponses[m.id] ELSE 0

\* variant of send without the `if (resolver)` test: calling the missing
\* resolver throws
sendUnchecked(m) ==
    /\ ~crashed
    /\ IF HasId(m)
       THEN IF Resolver(m) # 0
            THEN /\ pendingResponses' = MapDelete(pendingResponses, m.id)
                 /\ Fulfil(Resolver(m), m)
                 /\ UNCHANGED warned
            ELSE /\ crashed' = TRUE
                 /\ UNCHANGED <<pendingResponses, promise, awaiting, nres,
                                lastRes, warned>>
       ELSE UNCHANGED <<pendingResponses, promise, awaiting, nres, lastRes,
                        crashed, warned>>
    /\ UNCHANGED <<listening, onmessage, timers, ncalls, reqId, handed>>

\* async send(message)
send(m) ==
    /\ ~crashed
    /\ IF HasId(m)
       THEN IF Resolver(m) # 0
            THEN /\ pendingResponses' = MapDelete(pendingResponses, m.id)
                 /\ Fulfil(Resolver(m), m)
                 /\ UNCHANGED warned
            ELSE /\ warned' = TRUE
                 /\ UNCHANGED <<pendingResponses, promise, awaiting, nres,
                                lastRes, crashed>>
       ELSE UNCHANGED <<pendingResponses, promise, awaiting, nres, lastRes,
                        crashed, warned>>
    /\ UNCHANGED <<listening, onmessage, timers, ncalls, reqId, handed>>

\* the handler (SDK) answers a request it was handed, with the request's id
HandlerReply(e) ==
    /\ e \in inbox
    /\ send(Outbound(e.id, e.call))
    /\ inbox' = inbox \ {e}

\* the handler sends a message of its own: a notification (no id) or a
\* request to the client, numbered by the SDK's own counter
HandlerSend(id) ==
    /\ onmessage
    /\ send(Outbound(id, 0))
    /\ UNCHANGED inbox

\* ------------------------------------------------------------ the timer
\* setTimeout callback of the oldest armed timer (all delays are equal, so
\* timers fire in the order they were armed)
TimerExpire ==
    /\ ~crashed
    /\ timers # <<>>
    /\ LET t == Head(timers)
       IN  /\ pendingResponses' = MapDelete(pendingResponses, t.id)
           /\ Reject(t.call)
    /\ timers' = Tail(timers)
    /\ UNCHANGED <<listening, onmessage, ncalls, reqId, inbox, handed, warned>>
    /\ UNCHANGED dispatch

\* ------------------------------------------------------- the dispatchers
\* tools.find(t => t.name === toolName): index of the first match, 0 if none
Find(toolName) ==
    LET hits == {i \in 1..Len(tools) : tools[i].name = toolName}
    IN  IF hits = {} THEN 0 ELSE CHOOSE i \in hits : \A j \in hits : i <= j

\* tools.map(t => t.name)
Names == [i \in 1..Len(tools) |-> tools[i].name]

ListedWhole(tool) == tool

\* one element of a listing
Listed(tool) == [name |-> tool.name, description |-> tool.description,
                 inputSchema |-> tool.inputSchema]

\* tools.map(tool => ({name, description, inputSchema}))
ToolList == [i \in 1..Len(tools) |-> Listed(tools[i])]

\* one call of tool.execute(args) and how it ended
Execution(toolName, args, outcome) ==
    [tool |-> toolName, args |-> args, outcome |-> outcome]

ExecuteTwice(toolName, args, returned, caught) ==
    \E outcome \in Outcomes :
        /\ executed' = <<Execution(toolName, args, outcome),
                         Execution(toolName, args, outcome)>>
        /\ reply' = (IF outcome = "returns" THEN returned ELSE caught)

\* `try { result = await tool.execute(args) ... } catch (error) {...}`:
\* execute is called once and `returned` or `caught` is the reply
Execute(toolName, args, returned, caught) ==
    \E outcome \in Outcomes :
        /\ executed' = <<Execution(toolName, args, outcome)>>
        /\ reply' = (IF outcome = "returns" THEN returned ELSE caught)

\* the content of a CallTool result
TextContent(text) == [content |-> <<[type |-> "text", text |-> text]>>]

\* ListToolsRequestSchema handler (lines 47-53)
ListToolsHandler(r) ==
    /\ startup.transport = "StdioServerTransport"
    /\ request' = r
    /\ reply' = Returned([tools |-> ToolList])
    /\ executed' = <<>>
    /\ UNCHANGED <<frontEnd, tools, apiKey, startup>>
    /\ UNCHANGED transport

\* CallToolRequestSchema handler (lines 56-86)
CallToolHandler(r) ==
    LET toolName == r.params.name
        args == OrElse(r.params.arguments, "{}")
    IN  /\ startup.transport = "StdioServerTransport"
        /\ request' = r
        /\ IF Find(toolName) = 0
           THEN /\ reply' = Thrown(<<"Unknown tool: ", toolName>>)
                /\ executed' = <<>>
           ELSE Execute(toolName, args,
                   Returned(TextContent(Stringify(RawResult(toolName, args)))),
                   Returned([content |-> TextContent(<<"Error: ", FailureText>>).content,
                             isError |-> TRUE]))
        /\ UNCHANGED <<frontEnd, tools, apiKey, startup>>
        /\ UNCHANGED transport

NeverMissing(toolName) == FALSE

\* `!toolName`
NoToolName(toolName) == toolName = NoString \/ toolName = ""

UnknownMethodBare(method) == [error |-> <<"Unknown method: ", method>>]

\* body of the answer to a method that is neither a list nor a call
UnknownMethod(method) == [error |-> <<"Unknown method: ", method>>,
                          supportedMethods |-> SupportedMethods]

\* app.post('/mcp') of startHttpServer (lines 310-371)
McpRoute(body) ==
    LET method == body.method
        params == body.params
        toolName == OrElse(params.name, params.toolName)
        args == OrElse(params.arguments, OrElse(params.args, "{}"))
    IN  /\ startup.transport = "startHttpServer"
        /\ request' = body
        /\ IF method \in ListMethods
           THEN /\ reply' = Json(200, [tools |-> ToolList])
                /\ executed' = <<>>
           ELSE IF method \in CallMethods
           THEN IF NoToolName(toolName)
                THEN /\ reply' = Json(400, [error |-> <<"Tool name is required">>,
                                           availableTools |-> Names])
                     /\ executed' = <<>>
                ELSE IF Find(toolName) = 0
                THEN /\ reply' = Json(404, [error |-> <<"Unknown tool: ", toolName>>,
                                           availableTools |-> Names])
                     /\ executed' = <<>>
                ELSE Execute(toolName, args,
                        Json(200, [success |-> TRUE,
                                   result |-> RawResult(toolName, args)]),
                        Json(500, [success |-> FALSE, error |-> FailureText,
                                   details |-> <<"stack of", FailureText>>]))
           ELSE /\ reply' = Json(400, UnknownMethod(method))
                /\ executed' = <<>>
        /\ UNCHANGED <<frontEnd, tools, apiKey, startup>>
        /\ UNCHANGED transport

\* ------------------------------------------------------------------- Next
Submit == (\E message \in Messages : Post(message)) /\ UNCHANGED dispatch
Reply == (\E e \in inbox : HandlerReply(e)) /\ UNCHANGED dispatch
Push == (\E id \in IdValues : HandlerSend(id)) /\ UNCHANGED dispatch
ListTools == \E r \in ListToolsRequests : ListToolsHandler(r)
CallTool == \E r \in CallToolRequests : CallToolHandler(r)
PostMcp == \E body \in McpBodies : McpRoute(body)

Next == initializeServer \/ Start \/ Attach \/ Submit \/ Reply \/ Push
           \/ TimerExpire \/ ListTools \/ CallTool \/ PostMcp

Spec == Init /\ [][Next]_vars

\* the timer always fires: the event loop runs every armed setTimeout
LiveSpec == Init /\ [][Next]_vars /\ WF_vars(TimerExpire)

\* ----------------------------------------------------------- vocabulary
\* a valid envelope: jsonrpc is "2.0" and a method is present
ValidEnvelope(m) == m.jsonrpc = "2.0" /\ m.method # NoString

\* the pending entry that holds the resolver of call c, if any
HasEntry(c) == \E i \in DOMAIN pendingResponses : pendingResponses[i] = c

\* the 30 s timer of call c has not fired yet
TimerArmed(c) == \E k \in 1..Len(timers) : timers[k].call = c

\* what an HTTP caller or the pending map can observe
Observable == <<pendingResponses, promise, awaiting, nres, lastRes, crashed>>

\* ------------------------------------------------------------------- C1
\* C1: every admitted request (a call) gets at most one HTTP response, and
\* its pending entry is in the map exactly as long as the call is
\* unanswered: present before the resolution, gone from it on.
C1_ResolvedOnceAndEntryRemoved ==
    \A c \in 1..ncalls :
        /\ nres[c] <= 1
        /\ (nres[c] = 1) <=> ~HasEntry(c)

\* ------------------------------------------------------------------- C2
\* C2: when the handler replies to a request whose caller is waiting and
\* whose timer has not fired, that caller is answered 200 with exactly
\* that message.
C2_ReplyBeforeDeadlineIsReturned ==
    [][\A e \in inbox :
         (HandlerReply(e) /\ awaiting[e.call] /\ TimerArmed(e.call))
           => lastRes' = Response(e.call, 200, Outbound(e.id, e.call))]_vars

\* ------------------------------------------------------------------- C3
\* C3: a handler reply produced for the request of one call is never
\* written as the HTTP response of another call.
C3_ReplyReachesItsOwnCall ==
    (lastRes.body.kind = "message" /\ lastRes.body.origin # 0)
        => lastRes.body.origin = lastRes.call

C5_TimeoutThenLateReplyIgnored ==
    [][/\ (TimerExpire /\ awaiting[Head(timers).call])
            => /\ lastRes'.call = Head(timers).call
               /\ lastRes'.status = 500
               /\ lastRes'.body.message = "Request timeout"
               /\ ~MapHas(pendingResponses', Head(timers).id)
       /\ \A e \in inbox :
            (HandlerReply(e) /\ promise[e.call] = "rejected")
              => UNCHANGED Observable]_vars

\* ------------------------------------------------------------------- C6
\* C6: send with a message whose id has no pending entry changes nothing:
\* the pending map, every promise, every waiting caller and the last
\* response stay as they are, and nothing is raised.
C6_SendWithoutEntryIsNoOp ==
    [][\A id \in RequestIds : \A o \in 0..MaxCalls :
         (~MapHas(pendingResponses, id) /\ send(Outbound(id, o)))
           => UNCHANGED Observable]_vars

\* send found no entry (it logged the warning) for the late reply of a
\* request that timed out, while another caller is waiting
C6_Witness ==
    /\ warned
    /\ ~crashed
    /\ \E c \in Calls : promise[c] = "rejected" /\ [call |-> c, id |-> reqId[c]] \notin inbox
    /\ \E d \in Calls : awaiting[d]

\* ------------------------------------------------------------------- C7
\* C7: every admitted request is eventually answered.
C7_EveryRequestEventuallyAnswered ==
    \A c \in Calls : (ncalls >= c) ~> (nres[c] >= 1)

\* ------------------------------------------------------------------- C8
\* C8: a request posted while no handler is attached is answered 500
\* "message handler not initialized" and leaves the pending map as it was.
C8_NoHandlerCreatesNoEntry ==
    [][\A m \in Messages :
         (~onmessage /\ ValidEnvelope(m) /\ m.id \in RequestIds /\ Post(m))
           => /\ lastRes'.status = 500
              /\ lastRes'.body.code = InternalError
              /\ pendingResponses' = pendingResponses]_vars

\* ------------------------------------------------------------------- C9
\* C9: a submission never replaces or removes an entry that is pending:
\* every id that was pending still maps to the same call afterwards.
C9_PendingEntryNeverReplaced ==
    [][(\E m \in Messages : Post(m))
         => \A i \in DOMAIN pendingResponses :
              /\ MapHas(pendingResponses', i)
              /\ pendingResponses'[i] = pendingResponses[i]]_vars

\* ------------------------------------------------------------------ C10
\* C10: the timer of a request that the handler has already resolved
\* changes nothing when it fires: the pending map and every call stay as
\* they are.
C10_TimerAfterResolveIsNoOp ==
    [][(TimerExpire /\ promise[Head(timers).call] = "fulfilled")
         => UNCHANGED Observable]_vars

\* C11: a message whose jsonrpc field is absent or not "2.0" is answered 400
\* Invalid Request, and the id of that answer is the id the message carried,
\* whatever its value (0 included); it is null only when the message carried
\* no id (or carried null).
C11_BadVersionEchoesId ==
    [][\A m \in Messages : (BadJsonrpc(m) /\ Post(m)) =>
          /\ lastRes'.status = 400
          /\ lastRes'.body.code = InvalidRequest
          /\ lastRes'.body.id = (IF m.id = Undefined THEN Null ELSE m.id)]_vars

\* C12: a message with jsonrpc "2.0" and no method is answered 400 Invalid
\* Request "missing method field"; the jsonrpc check comes first, so a message
\* that fails both checks is answered with the jsonrpc error.
C12_MissingMethodAfterVersionCheck ==
    [][\A m \in Messages : (m.method = NoString /\ Post(m)) =>
          /\ lastRes'.status = 400
          /\ lastRes'.body.code = InvalidRequest
          /\ lastRes'.body.message =
                (IF m.jsonrpc = "2.0"
                 THEN "Invalid Request: missing method field"
                 ELSE "Invalid Request: missing or invalid jsonrpc field")]_vars

C12_Witness ==
    /\ lastRes.status = 400
    /\ lastRes.body.message = "Invalid Request: missing method field"
    /\ DOMAIN pendingResponses # {}

\* ------------------------------------------- vocabulary of the dispatchers
\* a request has been dispatched and `reply` is its answer
Dispatched == reply # NoReply

\* the reply is of the success class: HTTP 200, or an SDK result
Succeeded == reply.status = 200 \/ "result" \in DOMAIN reply.body

\* what a successful reply carries: the SDK's result, or the HTTP body
Payload == IF "result" \in DOMAIN reply.body /\ reply.status = 0
           THEN reply.body.result ELSE reply.body

\* C13: the HTTP status of a POST /mcp response follows the outcome class of
\* the message: 4xx for a malformed envelope (jsonrpc not "2.0", or no
\* method), 204 for a notification (no id), 200 with the handler's message
\* for a resolved request, 500 for an internal failure; on both POST /mcp
\* routes.
C13_StatusByOutcomeClass ==
    /\ lastRes.status \in {0, 200, 204, 400, 500}
    /\ lastRes.status = 200 => lastRes.body.kind = "message"
    /\ lastRes.status = 204 => lastRes.call = 0 /\ lastRes.body = EmptyBody
    /\ lastRes.status = 400 => lastRes.call = 0 /\ lastRes.body.code = InvalidRequest
    /\ lastRes.status = 500 => lastRes.call # 0 /\ lastRes.body.code = InternalError
    /\ (frontEnd = "startHttpServer" /\ Dispatched) =>
          IF request.jsonrpc # "2.0" \/ request.method = NoString
          THEN reply.status \in 400..499
          ELSE IF request.id = Undefined
          THEN reply.status = 204
          ELSE reply.status \in {200, 400, 404, 500}

\* the reply carries the raw result of the execution as its content: as the
\* text of the SDK result's content item, or as `result` of the HTTP body
EmbedsResult ==
    /\ executed # <<>>
    /\ LET raw == RawResult(executed[1].tool, executed[1].args)
       IN  IF reply.status = 0
           THEN /\ DOMAIN Payload = {"content"}
                /\ Payload.content = <<[type |-> "text", text |-> Stringify(raw)]>>
           ELSE /\ "result" \in DOMAIN Payload
                /\ Payload.result = raw

\* the reply's content is flagged as an error and carries the failure text
MarksFailure ==
    /\ "isError" \in DOMAIN Payload
    /\ Payload.isError
    /\ Payload.content = <<[type |-> "text", text |-> <<"Error: ", FailureText>>]>>

\* C14: a tool invocation whose execute threw is answered with a reply of
\* the success class (no error envelope, no error status) whose content is
\* marked as an error and carries the failure text.
C14_ExecutionFailureIsSuccessEnvelope ==
    (Dispatched /\ executed # <<>> /\ executed[1].outcome = "throws") =>
        /\ Succeeded
        /\ MarksFailure

\* `request` is a tool invocation
IsCall == Dispatched /\ request.method \in CallMethods

\* the operation name a tool invocation carries (NoString when it carries none)
RequestedName ==
    IF request.params.name \notin {NoString, ""} THEN request.params.name
    ELSE IF request.params.toolName \notin {NoString, ""} THEN request.params.toolName
    ELSE NoString

\* the reply lists the names of all registered operations
EnumeratesNames ==
    /\ "availableTools" \in DOMAIN reply.body
    /\ reply.body.availableTools = [i \in 1..Len(tools) |-> tools[i].name]

\* C15: a tool invocation that names an operation which is not registered is
\* answered with an error of the not-found class that lists the names of all
\* registered operations, and execute is not called.
C15_UnknownToolEnumeratesNames ==
    (IsCall /\ RequestedName # NoString
            /\ \A i \in 1..Len(tools) : tools[i].name # RequestedName) =>
        /\ ~Succeeded
        /\ reply.status # 0 => reply.status = 404
        /\ EnumeratesNames
        /\ executed = <<>>

\* `request` is a tool-listing request
IsListing == Dispatched /\ request.method \in ListMethods

GivenArguments ==
    IF request.params.arguments # NoString THEN request.params.arguments
    ELSE request.params.args

C19_UnknownMethodEnumeratesMethods ==
    (Dispatched /\ request.method \notin ListMethods \cup CallMethods) =>
        /\ ~Succeeded
        /\ reply.status = 400
        /\ "supportedMethods" \in DOMAIN reply.body
        /\ {reply.body.supportedMethods[i] : i \in DOMAIN reply.body.supportedMethods}
              = ListMethods \cup CallMethods
        /\ executed = <<>>

C19_Witness ==
    /\ Dispatched
    /\ request.method = "ping"
    /\ reply.status = 400
    /\ Len(tools) = 2

\* C20: no protocol error (malformed envelope, unknown method, handler not
\* attached) ends the process, neither when it is answered nor later when a
\* timer armed for the request expires: no promise is ever rejected with
\* nobody awaiting it.
C20_ProtocolErrorsNeverCrash == ~crashed

\* C21: when the API key is absent at startup, initializeServer reports the
\* diagnostic and exits with status 1 having done nothing else: the registry
\* is not built, no handler is registered, no transport is started, and no
\* request is ever served.
C21_MissingKeyExitsBeforeStartup ==
    (NoApiKey(apiKey) /\ startup.phase # "starting") =>
        /\ startup.phase = "exited"
        /\ startup.exitCode = 1
        /\ startup.diagnostic # NoString
        /\ ~startup.registry /\ tools = <<>>
        /\ startup.handlers = {}
        /\ startup.transport = "none"
        /\ ~listening
        /\ reply = NoReply

C21_Witness == apiKey = NoString /\ startup.phase = "exited"

\* C22: every response written for a request (the handler's reply, the
\* timeout error, the handler-not-initialized error) carries the id of the
\* request that created the call, whatever that id is (0 included).
C22_ReplyCarriesRequestId ==
    lastRes.call # 0 => lastRes.body.id = reqId[lastRes.call]

\* C23: the pending map holds entries only of calls that are still waiting
\* for their answer: once a call has been answered (reply, timeout or
\* immediate error) no entry it created is left in the map.
C23_NoCallbackLeak ==
    \A i \in DOMAIN pendingResponses :
        /\ awaiting[pendingResponses[i]]
        /\ nres[pendingResponses[i]] = 0

\* C24: a send that resolves the entry of id A removes that entry only and
\* unblocks its caller only: every other entry, and the promise, the
\* suspension and the responses of every other call are unchanged; and a
\* listening transport admits a new request whatever calls are suspended.
C24_ResolveTouchesOnlyItsEntry ==
    [][/\ (listening /\ ~crashed /\ ncalls < MaxCalls) =>
             ENABLED (\E m \in Messages : ValidEnvelope(m) /\ m.id \in RequestIds
                                          /\ Post(m))
       /\ \A id \in RequestIds : \A o \in 0..MaxCalls :
            (MapHas(pendingResponses, id) /\ send(Outbound(id, o))) =>
               LET c == pendingResponses[id]
               IN  /\ DOMAIN pendingResponses' = DOMAIN pendingResponses \ {id}
                   /\ \A i \in DOMAIN pendingResponses' :
                         pendingResponses'[i] = pendingResponses[i]
                   /\ ~awaiting'[c]
                   /\ \A d \in Calls \ {c} :
                         /\ awaiting'[d] = awaiting[d]
                         /\ promise'[d] = promise[d]
                         /\ nres'[d] = nres[d]]_vars

C24_Witness ==
    /\ ncalls = 2
    /\ reqId[1] # reqId[2]
    /\ promise[2] = "fulfilled" /\ lastRes.call = 2 /\ lastRes.status = 200
    /\ awaiting[1] /\ promise[1] = "pending"
    /\ MapHas(pendingResponses, reqId[1])

\* C25: the entry of a request is stored before the message is handed to
\* the handler: a handler that calls send with the reply while onmessage is
\* still running finds the entry, and the reply is the response of that
\* request (200, the handler's message), with no entry left behind.
C25_SynchronousReplyIsReturned ==
    [][\A m \in Messages :
          (ValidEnvelope(m) /\ m.id \in RequestIds
              /\ RequestAnsweredInHandOff(m) /\ Post(m)) =>
             /\ lastRes' = Response(ncalls', 200, Outbound(m.id, ncalls'))
             /\ promise'[ncalls'] = "fulfilled"
             /\ ~awaiting'[ncalls']
             /\ ~MapHas(pendingResponses', m.id)]_vars

C25_Witness ==
    /\ ncalls = 1
    /\ inbox = {}
    /\ handed = 1
    /\ promise[1] = "fulfilled"
    /\ lastRes = Response(1, 200, Outbound(reqId[1], 1))
    /\ TimerArmed(1)

\* C26: with a handler attached, a POST /mcp whose envelope is valid
\* (jsonrpc "2.0" and a method) calls the handler exactly once, be it a
\* request or a notification; a POST rejected for its envelope never calls
\* the handler and creates no call, no pending entry and no timer.
C26_ValidEnvelopeHandedOnce ==
    [][\A m \in Messages :
          Post(m) =>
             IF ValidEnvelope(m)
             THEN onmessage => handed' = 1
             ELSE /\ handed' = 0
                  /\ lastRes'.status = 400
                  /\ UNCHANGED <<pendingResponses, timers, ncalls, inbox>>]_vars

\* a request was handed over and is still with the handler, then a
\* notification was handed over too
C26_Witness ==
    /\ onmessage
    /\ handed = 1
    /\ lastRes.status = 204
    /\ Cardinality(inbox) = 1

\* C27: send with a message that has no id (absent or null) changes
\* nothing: the pending map, every promise, every waiting caller and the
\* last response stay as they are, nothing is raised and no warning is
\* logged.
C27_SendWithoutIdChangesNothing ==
    [][\A id \in {Undefined, Null} : \A o \in 0..MaxCalls :
         send(Outbound(id, o)) => UNCHANGED <<Observable, warned>>]_vars

\* the handler can send a message without id while two callers wait with
\* their entries in the map (the send leaves this state as it is)
C27_Witness ==
    /\ ENABLED HandlerSend(Null)
    /\ ENABLED HandlerSend(Undefined)
    /\ ~warned
    /\ Cardinality(DOMAIN pendingResponses) = 2
    /\ \A c \in Calls : awaiting[c] /\ HasEntry(c)

=============================================================================
